---------------------------- MODULE Spec2Model ----------------------------
(***************************************************************************)
(* A model of the request pipeline of backend/main.py (stock-scope): the   *)
(* upstream client make_fmp_request, the endpoint handlers with their      *)
(* normalizers and fallback, the framework's rendering of what a handler   *)
(* returns or raises, and the log events emitted on the way.               *)
(*                                                                         *)
(* Text that the code computes with (tickers, symbols, dates) is a         *)
(* sequence of character codes, so that str.upper() and the lexicographic  *)
(* order of list.sort() are computed, not assumed.  Fixed message text is  *)
(* a TLA+ string inside a fragment; a message is a sequence of fragments.  *)
(***************************************************************************)
EXTENDS Integers, Sequences, FiniteSets, TLC

(* ------------------------------ bounds -------------------------------- *)

\* Number of request tasks the server may be running.
NumReqs == 2
\* Longest upstream price history drawn in SpecPrices.
MaxPoints == 3
\* Longest upstream most-actives list drawn in SpecPopular.
MaxActives == 7
\* Most fields left out of one upstream element in SpecDefaults.
MaxMissing == 2

Reqs == 1 .. NumReqs

(* ------------------------- Python / JSON values ----------------------- *)

\* JSON scalars as Python holds them after response.json().
JInt(n) == [k |-> "int", v |-> n]
\* A float, held in hundredths: JFloat(250) is 2.5.
JFloat(h) == [k |-> "float", v |-> h]
NaN == [k |-> "nan"]
Null == [k |-> "null"]
JStr(s) == [k |-> "str", s |-> s]
\* A str whose text is fixed in the source and never computed with.
Text(s) == [k |-> "text", s |-> s]

\* JSON documents as response.json() returns them.  The items of an array
\* and the fields of an object are functions from key to scalar.
JNull == [t |-> "null"]
JArr(items) == [t |-> "array", items |-> items]
JObj(fields) == [t |-> "object", fields |-> fields]

\* Message fragments: fixed text, and text computed from the request.
Lit(s) == [lit |-> s]
Sym(s) == [sym |-> s]
Val(x) == [val |-> x]

\* Python's ==  on two numbers: an int equals the float of the same value.
Hundredths(x) == IF x.k = "int" THEN 100 * x.v ELSE x.v
IsNum(x) == x.k \in {"int", "float"}
NumEq(x, y) == IsNum(x) /\ IsNum(y) /\ Hundredths(x) = Hundredths(y)

\* float(x): TypeError on None; a number keeps its value and becomes a float.
\* (Upstream numeric fields hold JSON numbers, NaN or null; a str is refused
\* here, the modelled text being letters and dates, never a numeral.)
CanFloat(x) == x.k \in {"int", "float", "nan"}
PyFloat(x) == IF x.k = "nan" THEN NaN ELSE JFloat(Hundredths(x))

\* int(x): TypeError on None, ValueError on NaN; a float is truncated
\* toward zero.
CanInt(x) == x.k \in {"int", "float"}
PyInt(x) ==
    IF x.k = "int" THEN x
    ELSE IF x.v >= 0 THEN JInt(x.v \div 100) ELSE JInt(-((-x.v) \div 100))

\* dict.get(key): the default is forgotten and a missing key gives None.
Get_NoDefault(d, key, default) == IF key \in DOMAIN d THEN d[key] ELSE Null

\* dict.get(key, default) giving the default whatever d holds.
Get_DefaultAlways(d, key, default) == default

\* dict.get(key, default)
Get(d, key, default) == IF key \in DOMAIN d THEN d[key] ELSE default

\* Upper leaving the ticker as the caller typed it.
Upper_AsTyped(s) == s

\* str.upper() on ASCII text.
Upper(s) == [i \in DOMAIN s |-> IF s[i] \in 97 .. 122 THEN s[i] - 32 ELSE s[i]]

\* Python's truth value of a decoded document: None, [] and {} are false.
Truthy(data) ==
    CASE data.t = "null" -> FALSE
      [] data.t = "array" -> Len(data.items) > 0
      [] data.t = "object" -> DOMAIN data.fields # {}

\* len(data); None has no len() (never asked: every caller tests truth first).
PyLen(data) ==
    CASE data.t = "array" -> Len(data.items)
      [] data.t = "object" -> Cardinality(DOMAIN data.fields)
      [] OTHER -> 0

(* ----------------------------- exceptions ----------------------------- *)

HTTPException(status_code, detail) ==
    [type |-> "HTTPException", status_code |-> status_code, detail |-> detail]

\* Any other exception class, with the text str(e) gives.
PyError(type, text) == [type |-> type, status_code |-> 0, detail |-> <<Lit(text)>>]

\* str(e): Starlette's HTTPException prints "<status_code>: <detail>".
StrOf(e) ==
    IF e.type = "HTTPException"
    THEN <<Lit(ToString(e.status_code)), Lit(": ")>> \o e.detail
    ELSE e.detail

Returned(value, logs) == [raised |-> FALSE, value |-> value, logs |-> logs]
Raised(exc, logs) == [raised |-> TRUE, value |-> exc, logs |-> logs]

(* ----------------------------- log events ----------------------------- *)

\* One record per logger call; carries is the record of the values the
\* message text is formatted with.
LogEvent(logger, level, msg, carries) ==
    [logger |-> logger, level |-> level, msg |-> msg, carries |-> carries]

\* ApiLog formatting its message with no value at all.
ApiLog_NoValues(level, msg, carries) == LogEvent("fmp_api", level, msg, <<>>)

ApiLog(level, msg, carries) == LogEvent("fmp_api", level, msg, carries)
AppLog(level, msg) == LogEvent("stock_analytics", level, msg, <<>>)
RequestLog(level, msg, carries) == LogEvent("requests", level, msg, carries)

(* -------------------------- the upstream client ------------------------ *)

\* What "await client.get(url, params=params)" can end in.
GetTimeout == [kind |-> "timeout"]
GetNetworkError == [kind |-> "network"]
\* A response whose body response.json() cannot decode, or decodes to value.
GetUndecodable(status) == [kind |-> "response", status |-> status, valid |-> FALSE]
GetResponse(status, value) ==
    [kind |-> "response", status |-> status, valid |-> TRUE, value |-> value]

\* httpx Response.is_success, which raise_for_status() tests.
IsSuccess(status) == status \in 200 .. 299

\* HasErrorMessage finding no error report in any body.
HasErrorMessage_Never(data) == FALSE

\* isinstance(data, dict) and "Error Message" in data
HasErrorMessage(data) == data.t = "object" /\ "Error Message" \in DOMAIN data.fields

\* make_fmp_request up to its await: the api key joins the parameters and
\* the request is logged.
FmpRequestIssue(endpoint, params) ==
    [endpoint |-> endpoint,
     params |-> params,
     apikey |-> TRUE,
     logs |-> <<ApiLog("info", "FMP API REQUEST", [endpoint |-> endpoint])>>]

\* The body of the try block, from the response on.
FmpTryBody(endpoint, outcome) ==
    CASE outcome.kind = "timeout" ->
            Raised(PyError("TimeoutException", "timed out"), <<>>)
      [] outcome.kind = "network" ->
            Raised(PyError("ConnectError", "connection failed"), <<>>)
      [] outcome.kind = "response" ->
            LET logs == <<ApiLog("info", "FMP API RESPONSE",
                                 [endpoint |-> endpoint, status |-> outcome.status,
                                  time |-> "request_time"])>>
            IN  IF outcome.status = 403
                THEN Raised(HTTPException(403, <<Lit("API access forbidden - check API key")>>),
                            logs \o <<ApiLog("error", "FMP API 403 Forbidden",
                                             [endpoint |-> endpoint])>>)
                ELSE IF ~IsSuccess(outcome.status)
                THEN Raised([type |-> "HTTPStatusError", status_code |-> outcome.status,
                             detail |-> <<Lit("status error")>>], logs)
                ELSE IF ~outcome.valid
                THEN Raised(PyError("JSONDecodeError", "Expecting value"), logs)
                ELSE IF HasErrorMessage(outcome.value)
                THEN Raised(HTTPException(400, <<Val(outcome.value.fields["Error Message"])>>),
                            logs \o <<ApiLog("error", "FMP API Error",
                                             [message |-> outcome.value.fields["Error Message"]])>>)
                ELSE Returned(outcome.value, logs)

\* FmpExcept letting an HTTPException raised in the try block through.
FmpExcept_PassHTTPException(endpoint, e, logs) ==
    CASE e.type = "HTTPException" -> Raised(e, logs)
      [] e.type = "TimeoutException" ->
            Raised(HTTPException(504, <<Lit("FMP API request timed out")>>), logs)
      [] OTHER -> Raised(HTTPException(500, <<Lit("API error: ")>> \o StrOf(e)), logs)

\* The except clauses, tried in order on what the try block raised: an
\* HTTPException raised inside the block is an Exception and meets the last.
FmpExcept(endpoint, e, logs) ==
    CASE e.type = "HTTPStatusError" ->
            Raised(HTTPException(500, <<Lit("FMP API error: "), Lit(ToString(e.status_code))>>),
                   logs \o <<ApiLog("error", "FMP API HTTP ERROR",
                                    [endpoint |-> endpoint, status |-> e.status_code])>>)
      [] e.type = "TimeoutException" ->
            Raised(HTTPException(504, <<Lit("FMP API request timed out")>>),
                   logs \o <<ApiLog("error", "FMP API TIMEOUT", [endpoint |-> endpoint])>>)
      [] OTHER ->
            Raised(HTTPException(500, <<Lit("API error: ")>> \o StrOf(e)),
                   logs \o <<ApiLog("error", "FMP API ERROR",
                                    [endpoint |-> endpoint, error |-> StrOf(e)])>>)

\* make_fmp_request from the await on: the data, or the HTTPException raised.
make_fmp_request(endpoint, outcome) ==
    LET t == FmpTryBody(endpoint, outcome)
    IN  IF t.raised THEN FmpExcept(endpoint, t.value, t.logs) ELSE t

(* ------------------------ what handlers share -------------------------- *)

\* How a handler ends: exit names the statement it leaves by, value is the
\* document returned or the HTTPException raised.
Exit(exit, raised, value, logs) ==
    [exit |-> exit, raised |-> raised, value |-> value, logs |-> logs]

\* IsEmpty testing the length of a list only.
IsEmpty_ListOnly(data) == data.t = "array" /\ Len(data.items) = 0

\* "if not data or len(data) == 0"
IsEmpty(data) == ~Truthy(data) \/ PyLen(data) = 0

\* HandlerExcept with the clause "except HTTPException: raise" left out.
HandlerExcept_NoReraise(name, prefix, e, logs) ==
    Exit("unexpected", TRUE,
         HTTPException(500, <<Lit(prefix)>> \o StrOf(e)),
         logs \o <<AppLog("error", name)>>)

\* The two except clauses every ticker handler ends with:
\*   except HTTPException: raise
\*   except Exception as e: app_logger.error(...); raise HTTPException(500, ...)
HandlerExcept(name, prefix, e, logs) ==
    IF e.type = "HTTPException"
    THEN Exit("reraise", TRUE, e, logs)
    ELSE Exit("unexpected", TRUE,
              HTTPException(500, <<Lit(prefix)>> \o StrOf(e)),
              logs \o <<AppLog("error", name)>>)

\* "raise HTTPException(status_code=404, ...)" after the warning; the raise
\* sits inside the try and leaves through "except HTTPException: raise".
NotFound(warning, detail, logs) ==
    Exit("not_found", TRUE, HTTPException(404, detail),
         logs \o <<AppLog("warning", warning)>>)

\* The exception of the first conversion that fails, the conversions being
\* evaluated in the order written: float(None) and int(None) are TypeErrors,
\* int(nan) is a ValueError.  convs is a sequence of <<"float" | "int", x>>.
ConvOk(c) == IF c[1] = "float" THEN CanFloat(c[2]) ELSE CanInt(c[2])
ConvError(convs) ==
    LET i == CHOOSE i \in DOMAIN convs :
                 ~ConvOk(convs[i]) /\ \A j \in 1 .. (i - 1) : ConvOk(convs[j])
    IN  IF convs[i][2].k = "null"
        THEN PyError("TypeError", "argument must be a string or a real number, not 'NoneType'")
        ELSE PyError("ValueError", "cannot convert float NaN to integer")
AllConvOk(convs) == \A i \in DOMAIN convs : ConvOk(convs[i])

(* --------------------------- company profile --------------------------- *)

\* Text defaults of the profile, as character codes.
USD == <<85, 83, 68>>
NASDAQ == <<78, 65, 83, 68, 65, 81>>
US == <<85, 83>>
Empty == JStr(<<>>)

\* The number conversions of the company_data literal, in evaluation order.
CompanyConvs(company) ==
    << <<"float", Get(company, "price", JInt(0))>>,
       <<"float", Get(company, "change", JInt(0))>>,
       <<"float", Get(company, "changePercentage", JInt(0))>>,
       <<"int", Get(company, "marketCap", JInt(0))>>,
       <<"float", Get(company, "beta", JFloat(100))>>,
       <<"int", Get(company, "averageVolume", JInt(0))>>,
       <<"int", Get(company, "marketCap", JInt(0))>>,
       <<"float", Get(company, "lastDividend", JInt(0))>> >>

\* The company_data literal.
CompanyData(company, ticker_upper) ==
    [symbol |-> Get(company, "symbol", JStr(ticker_upper)),
     companyName |-> Get(company, "companyName", Empty),
     price |-> PyFloat(Get(company, "price", JInt(0))),
     changes |-> PyFloat(Get(company, "change", JInt(0))),
     changesPercentage |-> PyFloat(Get(company, "changePercentage", JInt(0))),
     currency |-> Get(company, "currency", JStr(USD)),
     exchangeShortName |-> Get(company, "exchange", JStr(NASDAQ)),
     industry |-> Get(company, "industry", Empty),
     sector |-> Get(company, "sector", Empty),
     country |-> Get(company, "country", JStr(US)),
     marketCap |-> PyInt(Get(company, "marketCap", JInt(0))),
     beta |-> PyFloat(Get(company, "beta", JFloat(100))),
     volAvg |-> PyInt(Get(company, "averageVolume", JInt(0))),
     mktCap |-> PyInt(Get(company, "marketCap", JInt(0))),
     lastDiv |-> PyFloat(Get(company, "lastDividend", JInt(0))),
     range |-> Get(company, "range", Empty),
     exchange |-> Get(company, "exchangeFullName", Empty),
     description |-> Get(company, "description", Empty),
     ceo |-> Get(company, "ceo", Empty),
     website |-> Get(company, "website", Empty),
     image |-> Get(company, "image", Empty),
     employees |-> Get(company, "fullTimeEmployees", Empty),
     phone |-> Get(company, "phone", Empty),
     address |-> Get(company, "address", Empty),
     city |-> Get(company, "city", Empty),
     state |-> Get(company, "state", Empty),
     zip |-> Get(company, "zip", Empty),
     ipoDate |-> Get(company, "ipoDate", Empty)]

\* get_company_profile from the await on.
get_company_profile(ticker, outcome) ==
    LET ticker_upper == Upper(ticker)
        name == "Unexpected error in get_company_profile"
        prefix == "Error fetching company profile: "
        r == make_fmp_request("profile", outcome)
    IN  IF r.raised THEN HandlerExcept(name, prefix, r.value, r.logs)
        ELSE IF IsEmpty(r.value)
        THEN NotFound("No company profile data found",
                      <<Lit("Company "), Sym(ticker_upper), Lit(" not found")>>, r.logs)
        ELSE IF r.value.t # "array"
        THEN HandlerExcept(name, prefix, PyError("KeyError", "0"), r.logs)
        ELSE LET company == r.value.items[1]
             IN  IF ~AllConvOk(CompanyConvs(company))
                 THEN HandlerExcept(name, prefix, ConvError(CompanyConvs(company)), r.logs)
                 ELSE Exit("return", FALSE, JObj(CompanyData(company, ticker_upper)),
                           r.logs \o <<AppLog("info", "Successfully returned company profile")>>)

(* ----------------------------- stock prices ---------------------------- *)

\* Python's < on two str: code point by code point, a proper prefix first.
StrLess(a, b) ==
    \E i \in 1 .. (Len(a) + 1) :
        /\ i <= Len(b)
        /\ \A j \in 1 .. (i - 1) : a[j] = b[j]
        /\ (i > Len(a) \/ a[i] < b[i])

\* The sort key x["date"] of one point is less than that of another.
KeyLess(x, y) == StrLess(x.date.s, y.date.s)

\* The dict appended for one upstream item.
PricePoint(item) ==
    [date |-> Get(item, "date", Empty),
     close |-> PyFloat(Get(item, "price", JInt(0))),
     volume |-> PyInt(Get(item, "volume", JInt(0))),
     open |-> PyFloat(Get(item, "price", JInt(0))),
     high |-> PyFloat(Get(item, "price", JInt(0))),
     low |-> PyFloat(Get(item, "price", JInt(0)))]

PriceConvs(item) ==
    << <<"float", Get(item, "price", JInt(0))>>,
       <<"int", Get(item, "volume", JInt(0))>> >>

\* list.sort(key=...) is stable: a point goes after every point already
\* placed whose key is not greater than its own.
RECURSIVE InsertByDate(_, _)
InsertByDate(x, sorted) ==
    IF sorted = <<>> THEN <<x>>
    ELSE IF KeyLess(x, Head(sorted)) THEN <<x>> \o sorted
    ELSE <<Head(sorted)>> \o InsertByDate(x, Tail(sorted))

\* SortByDate leaving the points in upstream order.
SortByDate_Unsorted(points) == points

RECURSIVE SortByDate(_)
SortByDate(points) ==
    IF points = <<>> THEN <<>>
    ELSE InsertByDate(points[Len(points)], SortByDate(SubSeq(points, 1, Len(points) - 1)))

\* Sorting two or more points compares every key with another one, and a
\* None key raises TypeError (the modelled dates are str, None or absent).
SortRaises(points) ==
    Len(points) >= 2 /\ \E i \in DOMAIN points : points[i].date.k # "str"

\* "end_date - timedelta(days=days)": OverflowError when the date falls
\* outside years 1..9999, which it does on any day once days reaches the
\* ordinal of 9999-12-31 in either direction.
DateRangeOverflows(days) == days >= 3652059 \/ days <= -3652059

\* get_stock_prices from the await on.
get_stock_prices(ticker, outcome) ==
    LET ticker_upper == Upper(ticker)
        name == "Unexpected error in get_stock_prices"
        prefix == "Error fetching stock prices: "
        r == make_fmp_request("historical-price-eod/light", outcome)
    IN  IF r.raised THEN HandlerExcept(name, prefix, r.value, r.logs)
        ELSE IF IsEmpty(r.value)
        THEN NotFound("No stock price data found",
                      <<Lit("Stock price data for "), Sym(ticker_upper), Lit(" not found")>>,
                      r.logs)
        ELSE IF r.value.t # "array"
        THEN \* iterating a dict yields its keys, and a str has no .get
             HandlerExcept(name, prefix,
                           PyError("AttributeError", "'str' object has no attribute 'get'"),
                           r.logs)
        ELSE LET data == r.value.items
                 bad == {i \in DOMAIN data : ~AllConvOk(PriceConvs(data[i]))}
             IN  IF bad # {}
                 THEN LET first == CHOOSE i \in bad : \A j \in bad : i <= j
                      IN  HandlerExcept(name, prefix, ConvError(PriceConvs(data[first])), r.logs)
                 ELSE LET historical_data == [i \in DOMAIN data |-> PricePoint(data[i])]
                      IN  IF SortRaises(historical_data)
                          THEN HandlerExcept(name, prefix,
                                   PyError("TypeError", "'<' not supported between instances"),
                                   r.logs)
                          ELSE Exit("return", FALSE, JArr(SortByDate(historical_data)),
                                    r.logs \o <<AppLog("info", "Successfully returned price points")>>)

\* get_stock_prices before its await, when the date range cannot be computed.
get_stock_prices_overflow ==
    HandlerExcept("Unexpected error in get_stock_prices", "Error fetching stock prices: ",
                  PyError("OverflowError", "date value out of range"), <<>>)

(* ------------------------ pass-through handlers ------------------------ *)

\* get_key_metrics and get_financial_scores: "data[0]" is returned as it is.
FirstItem(name, prefix, warning, what, ticker, outcome, endpoint) ==
    LET ticker_upper == Upper(ticker)
        r == make_fmp_request(endpoint, outcome)
    IN  IF r.raised THEN HandlerExcept(name, prefix, r.value, r.logs)
        ELSE IF IsEmpty(r.value)
        THEN NotFound(warning, <<Lit(what), Sym(ticker_upper), Lit(" not found")>>, r.logs)
        ELSE IF r.value.t # "array"
        THEN HandlerExcept(name, prefix, PyError("KeyError", "0"), r.logs)
        ELSE Exit("return", FALSE, JObj(r.value.items[1]),
                  r.logs \o <<AppLog("info", "Successfully returned")>>)

get_key_metrics(ticker, outcome) ==
    FirstItem("Unexpected error in get_key_metrics", "Error fetching key metrics: ",
              "No key metrics data found", "Key metrics for ",
              ticker, outcome, "key-metrics-ttm")

get_financial_scores(ticker, outcome) ==
    FirstItem("Unexpected error in get_financial_scores", "Error fetching financial scores: ",
              "No financial scores data found", "Financial scores for ",
              ticker, outcome, "financial-scores")

\* get_financial_growth and get_analyst_estimates: "data" is returned whole.
WholeData(name, prefix, warning, what, ticker, outcome, endpoint) ==
    LET ticker_upper == Upper(ticker)
        r == make_fmp_request(endpoint, outcome)
    IN  IF r.raised THEN HandlerExcept(name, prefix, r.value, r.logs)
        ELSE IF IsEmpty(r.value)
        THEN NotFound(warning, <<Lit(what), Sym(ticker_upper), Lit(" not found")>>, r.logs)
        ELSE Exit("return", FALSE, r.value,
                  r.logs \o <<AppLog("info", "Successfully returned")>>)

get_financial_growth(ticker, outcome) ==
    WholeData("Unexpected error in get_financial_growth", "Error fetching financial growth: ",
              "No financial growth data found", "Financial growth data for ",
              ticker, outcome, "financial-growth")

get_analyst_estimates(ticker, outcome) ==
    WholeData("Unexpected error in get_analyst_estimates", "Error fetching analyst estimates: ",
              "No analyst estimates data found", "Analyst estimates for ",
              ticker, outcome, "analyst-estimates")

(* ---------------------------- popular stocks --------------------------- *)

\* One entry of fallback_stocks.
FallbackStock(symbol, name, price, change, changesPercentage) ==
    [symbol |-> JStr(symbol), name |-> Text(name), price |-> JFloat(price),
     change |-> JFloat(change), changesPercentage |-> JFloat(changesPercentage)]

fallback_stocks ==
    << FallbackStock(<<65, 65, 80, 76>>, "Apple Inc.", 23280, 479, 210),
       FallbackStock(<<84, 83, 76, 65>>, "Tesla Inc.", 24842, 1267, 538),
       FallbackStock(<<77, 69, 84, 65>>, "Meta Platforms Inc.", 34256, 823, 246),
       FallbackStock(<<71, 79, 79, 71, 76>>, "Alphabet Inc.", 13821, -145, -104),
       FallbackStock(<<65, 77, 90, 78>>, "Amazon.com Inc.", 14586, 234, 163),
       FallbackStock(<<78, 86, 68, 65>>, "NVIDIA Corporation", 87528, 1567, 182) >>

\* The dict appended for one upstream stock: no conversion is applied.
PopularStock(stock) ==
    [symbol |-> Get(stock, "symbol", Empty),
     name |-> Get(stock, "name", Empty),
     price |-> Get(stock, "price", JInt(0)),
     change |-> Get(stock, "change", JInt(0)),
     changesPercentage |-> Get(stock, "changesPercentage", JInt(0))]

\* Top6 without the slice: every upstream stock is passed on.
Top6_All(items) == items

\* data[:6]
Top6(items) == SubSeq(items, 1, IF Len(items) < 6 THEN Len(items) ELSE 6)

\* "except Exception as e" of get_popular_stocks, its only except clause.
PopularExcept(e, logs) ==
    Exit("unexpected", TRUE,
         HTTPException(500, <<Lit("Error fetching popular stocks: ")>> \o StrOf(e)),
         logs \o <<AppLog("error", "Error in get_popular_stocks")>>)

\* get_popular_stocks from the await on.
get_popular_stocks(outcome) ==
    LET r == make_fmp_request("most-actives", outcome)
    IN  IF r.raised THEN PopularExcept(r.value, r.logs)
        ELSE IF Truthy(r.value) /\ PyLen(r.value) > 0
        THEN IF r.value.t # "array"
             THEN \* a dict cannot be sliced
                  PopularExcept(PyError("KeyError", "slice(None, 6, None)"), r.logs)
             ELSE LET top == Top6(r.value.items)
                      popular_stocks == [i \in DOMAIN top |-> PopularStock(top[i])]
                  IN  Exit("return", FALSE, JArr(popular_stocks),
                           r.logs \o <<AppLog("info", "Successfully returned popular stocks")>>)
        ELSE Exit("fallback", FALSE, JArr(fallback_stocks),
                  r.logs \o <<AppLog("info", "Using fallback popular stocks data")>>)

(* ------------------------------ health, root --------------------------- *)

\* health_status with its fmp_status, and with fmp_error when there is one.
HealthStatus(fmp_status) ==
    [api_status |-> Text("healthy"), timestamp |-> Text("now"), version |-> Text("2.0.0"),
     api_provider |-> Text("Financial Modeling Prep"), fmp_status |-> Text(fmp_status)]
\* HealthStatusError without the assignment of fmp_error.
HealthStatusError_NoError(fmp_status, fmp_error) == HealthStatus(fmp_status)

HealthStatusError(fmp_status, fmp_error) ==
    [api_status |-> Text("healthy"), timestamp |-> Text("now"), version |-> Text("2.0.0"),
     api_provider |-> Text("Financial Modeling Prep"), fmp_status |-> Text(fmp_status),
     fmp_error |-> [k |-> "message", parts |-> fmp_error]]

\* health_check from the await on; health_status starts with fmp_status
\* "unknown" and every branch overwrites it.
health_check(outcome) ==
    LET r == make_fmp_request("profile", outcome)
    IN  IF r.raised
        THEN Exit("return", FALSE, JObj(HealthStatusError("unhealthy", StrOf(r.value))),
                  r.logs \o <<AppLog("error", "FMP API health check: FAILED")>>)
        ELSE IF Truthy(r.value) /\ PyLen(r.value) > 0
        THEN Exit("return", FALSE, JObj(HealthStatus("healthy")),
                  r.logs \o <<AppLog("info", "FMP API health check: HEALTHY")>>)
        ELSE Exit("return", FALSE, JObj(HealthStatus("unhealthy")),
                  r.logs \o <<AppLog("warning", "FMP API health check: UNHEALTHY")>>)

\* root: no upstream call.
root ==
    Exit("return", FALSE,
         JObj([message |-> Text("Enhanced Stock Analytics API is running"),
               timestamp |-> Text("now"), version |-> Text("2.0.0"),
               status |-> Text("healthy"),
               api_provider |-> Text("Financial Modeling Prep")]),
         <<AppLog("info", "Health check requested")>>)

(* ------------------- turning a handler's end into a response ----------- *)

\* json.dumps(content, allow_nan=False), which renders what a handler
\* returns, raises ValueError on a NaN anywhere in the content.
ContainsNaN(doc) ==
    CASE doc.t = "null" -> FALSE
      [] doc.t = "object" -> \E key \in DOMAIN doc.fields : doc.fields[key].k = "nan"
      [] doc.t = "array" ->
            \E i \in DOMAIN doc.items :
                \E key \in DOMAIN doc.items[i] : doc.items[i][key].k = "nan"

\* The framework's answer to a raised HTTPException: its status and
\* {"detail": detail}; the handler registered for Exception is not asked.
HTTPExceptionResponse(e) == [status |-> e.status_code, body |-> [detail |-> e.detail]]

\* global_exception_handler answering like the framework: the detail alone.
global_exception_handler_DetailOnly(path) ==
    [status |-> 500, body |-> [detail |-> <<Lit("Internal server error")>>]]

\* global_exception_handler
global_exception_handler(path) ==
    [status |-> 500,
     body |-> [detail |-> <<Lit("Internal server error")>>,
               timestamp |-> "now", path |-> path]]

\* The response to the caller for the end e of a handler.
Respond(e, path) ==
    IF e.raised THEN HTTPExceptionResponse(e.value)
    ELSE IF ContainsNaN(e.value) THEN global_exception_handler(path)
    ELSE [status |-> 200, body |-> e.value]

\* What log_requests and global_exception_handler log once the handler ended.
RespondLogs(e, path) ==
    IF ~e.raised /\ ContainsNaN(e.value)
    THEN <<RequestLog("error", "REQUEST ERROR", [url |-> path, time |-> "process_time"]),
           AppLog("error", "GLOBAL EXCEPTION")>>
    ELSE <<RequestLog("info", "RESPONSE",
                      [url |-> path, status |-> Respond(e, path).status,
                       time |-> "process_time"])>>

(* ------------------------------- routing ------------------------------- *)

TickerOps ==
    {"company_profile", "stock_prices", "key_metrics", "financial_scores",
     "financial_growth", "analyst_estimates"}
Ops == {"root", "health", "popular_stocks"} \cup TickerOps

\* An inbound request: the route, and the path and query values it binds.
Request(op, ticker, days) == [op |-> op, ticker |-> ticker, days |-> days]

\* str(request.url), up to the host.
Path(rq) ==
    CASE rq.op = "root" -> <<Lit("/")>>
      [] rq.op = "health" -> <<Lit("/api/health")>>
      [] rq.op = "popular_stocks" -> <<Lit("/api/popular-stocks")>>
      [] rq.op = "company_profile" -> <<Lit("/api/company/"), Sym(rq.ticker)>>
      [] rq.op = "stock_prices" -> <<Lit("/api/stock-prices/"), Sym(rq.ticker)>>
      [] rq.op = "key_metrics" -> <<Lit("/api/key-metrics/"), Sym(rq.ticker)>>
      [] rq.op = "financial_scores" -> <<Lit("/api/financial-scores/"), Sym(rq.ticker)>>
      [] rq.op = "financial_growth" -> <<Lit("/api/financial-growth/"), Sym(rq.ticker)>>
      [] rq.op = "analyst_estimates" -> <<Lit("/api/analyst-estimates/"), Sym(rq.ticker)>>

\* The upstream endpoint and the parameters each handler builds (the values
\* of the symbol; the names of the others).
Endpoint(rq) ==
    CASE rq.op = "health" -> "profile"
      [] rq.op = "popular_stocks" -> "most-actives"
      [] rq.op = "company_profile" -> "profile"
      [] rq.op = "stock_prices" -> "historical-price-eod/light"
      [] rq.op = "key_metrics" -> "key-metrics-ttm"
      [] rq.op = "financial_scores" -> "financial-scores"
      [] rq.op = "financial_growth" -> "financial-growth"
      [] rq.op = "analyst_estimates" -> "analyst-estimates"

Params(rq) ==
    CASE rq.op = "health" -> [symbol |-> <<65, 65, 80, 76>>, others |-> {}]
      [] rq.op = "popular_stocks" -> [symbol |-> <<>>, others |-> {}]
      [] rq.op = "stock_prices" -> [symbol |-> Upper(rq.ticker), others |-> {"from", "to"}]
      [] rq.op = "financial_growth" ->
            [symbol |-> Upper(rq.ticker), others |-> {"period", "limit"}]
      [] rq.op = "analyst_estimates" ->
            [symbol |-> Upper(rq.ticker), others |-> {"period", "limit", "page"}]
      [] OTHER -> [symbol |-> Upper(rq.ticker), others |-> {}]

\* The handler of rq from its first line to its await (ended FALSE, with the
\* upstream request issued) or to its end when it never awaits (ended TRUE).
HandlerBegin(rq) ==
    LET requested == <<AppLog("info", "requested")>>
    IN  IF rq.op = "root"
        THEN [ended |-> TRUE, end |-> root, calls |-> <<>>]
        ELSE IF rq.op = "stock_prices" /\ DateRangeOverflows(rq.days)
        THEN [ended |-> TRUE,
              end |-> [get_stock_prices_overflow EXCEPT !.logs = requested \o @],
              calls |-> <<>>]
        ELSE LET issue == FmpRequestIssue(Endpoint(rq), Params(rq))
             IN  [ended |-> FALSE,
                  end |-> Exit("none", FALSE, JNull, requested \o issue.logs),
                  calls |-> <<[endpoint |-> issue.endpoint, params |-> issue.params,
                               apikey |-> issue.apikey]>>]

\* The handler of rq from its await on, the upstream call ending in outcome.
HandlerEnd(rq, outcome) ==
    CASE rq.op = "health" -> health_check(outcome)
      [] rq.op = "popular_stocks" -> get_popular_stocks(outcome)
      [] rq.op = "company_profile" -> get_company_profile(rq.ticker, outcome)
      [] rq.op = "stock_prices" -> get_stock_prices(rq.ticker, outcome)
      [] rq.op = "key_metrics" -> get_key_metrics(rq.ticker, outcome)
      [] rq.op = "financial_scores" -> get_financial_scores(rq.ticker, outcome)
      [] rq.op = "financial_growth" -> get_financial_growth(rq.ticker, outcome)
      [] rq.op = "analyst_estimates" -> get_analyst_estimates(rq.ticker, outcome)

(* ------------------------- inputs that are drawn ----------------------- *)

\* Tickers as typed by the caller: "ab" and "Ab".
Tickers == {<<97, 98>>, <<65, 98>>}
AB == <<65, 66>>

\* f without the keys in gone.
Without(f, gone) == [key \in DOMAIN f \ gone |-> f[key]]

\* An upstream profile element with every field the handler reads.
SampleCompany ==
    [symbol |-> JStr(AB), companyName |-> JStr(<<65>>), price |-> JFloat(23280),
     change |-> JFloat(-479), changePercentage |-> JFloat(210),
     currency |-> JStr(<<69, 85, 82>>), exchange |-> JStr(<<78, 89>>),
     industry |-> JStr(<<73>>), sector |-> JStr(<<83>>), country |-> JStr(<<68, 69>>),
     marketCap |-> JFloat(123456), beta |-> JFloat(129), averageVolume |-> JInt(50),
     lastDividend |-> JInt(1), range |-> JStr(<<49, 45, 50>>),
     exchangeFullName |-> JStr(<<78>>), description |-> JStr(<<100>>),
     ceo |-> JStr(<<99>>), website |-> JStr(<<119>>), image |-> JStr(<<105>>),
     fullTimeEmployees |-> JStr(<<49, 48>>), phone |-> JStr(<<52>>),
     address |-> JStr(<<97>>), city |-> JStr(<<67>>), state |-> JStr(<<67, 65>>),
     zip |-> JStr(<<57>>), ipoDate |-> JStr(<<49, 57, 56, 48>>)]

\* Documents every endpoint may answer with: null, [], {}, an error report
\* under status 200, and an object that is no error report.
ErrorDoc == JObj([key \in {"Error Message"} |-> JStr(<<76, 105, 109, 105, 116>>)])
CommonDocs == {JNull, JArr(<<>>), JObj(<<>>), ErrorDoc, JObj([symbol |-> JStr(AB)])}

\* All sequences over S of length lo..hi.
SeqsOf(S, lo, hi) == UNION {[1 .. n -> S] : n \in lo .. hi}

ProfileItems ==
    {SampleCompany, <<>>, Without(SampleCompany, {"symbol", "currency", "price"}),
     [SampleCompany EXCEPT !.beta = Null], [SampleCompany EXCEPT !.price = NaN],
     [SampleCompany EXCEPT !.marketCap = NaN]}
ProfileDocs == CommonDocs \cup {JArr(<<c>>) : c \in ProfileItems}

PriceItems ==
    {[date |-> JStr(<<50>>), price |-> JFloat(150), volume |-> JInt(10)],
     [date |-> JStr(<<49, 48>>), price |-> JInt(2), volume |-> JFloat(1050)],
     <<>>,
     [date |-> Null, price |-> JInt(1)],
     [date |-> JStr(<<49>>), price |-> NaN],
     [date |-> JStr(<<49>>), price |-> Null]}
PriceDocs == CommonDocs \cup {JArr(s) : s \in SeqsOf(PriceItems, 1, 2)}

SampleStock ==
    [symbol |-> JStr(AB), name |-> JStr(<<65>>), price |-> JFloat(150),
     change |-> JInt(-1), changesPercentage |-> JFloat(-66)]
StockItems == {SampleStock, <<>>, [SampleStock EXCEPT !.price = NaN]}
PopularDocs ==
    CommonDocs \cup {JArr(s) : s \in SeqsOf(StockItems, 1, 2)}
               \cup {JArr([i \in 1 .. 7 |-> SampleStock])}

OtherItems == {[symbol |-> JStr(AB), score |-> JFloat(310)],
               [symbol |-> JStr(AB), score |-> NaN]}
OtherDocs == CommonDocs \cup {JArr(s) : s \in SeqsOf(OtherItems, 1, 2)}

Docs(op) ==
    CASE op \in {"health", "company_profile"} -> ProfileDocs
      [] op = "stock_prices" -> PriceDocs
      [] op = "popular_stocks" -> PopularDocs
      [] OTHER -> OtherDocs

\* Statuses outside 2xx that the upstream answers with.
ErrorStatuses == {403, 404, 500}

\* Everything the awaited upstream call of op can end in.  The body of an
\* answer outside 2xx is never decoded.
Outcomes(op) ==
    {GetTimeout, GetNetworkError, GetUndecodable(200)}
        \cup {GetUndecodable(s) : s \in ErrorStatuses}
        \cup {GetResponse(200, d) : d \in Docs(op)}

\* The requests a caller can send.
Requests ==
    {Request(op, <<>>, 0) : op \in {"root", "health", "popular_stocks"}}
        \cup {Request(op, t, 0) : op \in TickerOps \ {"stock_prices"}, t \in Tickers}
        \cup {Request("stock_prices", t, d) : t \in Tickers, d \in {30, 4000000}}

(* ------------------------------ the state ------------------------------ *)

VARIABLES
    pc,       \* pc[r]: "idle", "awaiting" (the upstream call is in flight), "done"
    req,      \* req[r]: the inbound request task r handles
    calls,    \* calls[r]: the upstream requests task r has issued
    outcome,  \* outcome[r]: what the upstream call of task r ended in
    exit,     \* exit[r]: the statement by which the handler of task r ended
    resp,     \* resp[r]: the response to the caller
    log       \* log[r]: the log events emitted for the request, in order

vars == <<pc, req, calls, outcome, exit, resp, log>>

None == [none |-> TRUE]

Init ==
    /\ pc = [r \in Reqs |-> "idle"]
    /\ req = [r \in Reqs |-> None]
    /\ calls = [r \in Reqs |-> <<>>]
    /\ outcome = [r \in Reqs |-> None]
    /\ exit = [r \in Reqs |-> "none"]
    /\ resp = [r \in Reqs |-> None]
    /\ log = [r \in Reqs |-> <<>>]

\* Task r takes the inbound request rq and runs its handler to the await,
\* or to its end when the handler never awaits.
Receive(r, rq) ==
    LET b == HandlerBegin(rq)
        first == <<RequestLog("info", "REQUEST", [url |-> Path(rq)])>>
    IN  /\ pc[r] = "idle"
        /\ req' = [req EXCEPT ![r] = rq]
        /\ calls' = [calls EXCEPT ![r] = b.calls]
        /\ IF b.ended
           THEN /\ pc' = [pc EXCEPT ![r] = "done"]
                /\ exit' = [exit EXCEPT ![r] = b.end.exit]
                /\ resp' = [resp EXCEPT ![r] = Respond(b.end, Path(rq))]
                /\ log' = [log EXCEPT ![r] =
                              first \o b.end.logs \o RespondLogs(b.end, Path(rq))]
           ELSE /\ pc' = [pc EXCEPT ![r] = "awaiting"]
                /\ log' = [log EXCEPT ![r] = first \o b.end.logs]
                /\ UNCHANGED <<exit, resp>>
        /\ UNCHANGED outcome

\* UpstreamCompletes coalescing identical requests: the call of task r ends
\* in o and answers every task that awaits a call for the same request.
UpstreamCompletes_Coalesced(r, o) ==
    LET e == HandlerEnd(req[r], o)
        same == {q \in Reqs : pc[q] = "awaiting" /\ req[q] = req[r]}
    IN  /\ pc[r] = "awaiting"
        /\ outcome' = [q \in Reqs |-> IF q \in same THEN o ELSE outcome[q]]
        /\ exit' = [q \in Reqs |-> IF q \in same THEN e.exit ELSE exit[q]]
        /\ resp' = [q \in Reqs |->
                       IF q \in same THEN Respond(e, Path(req[r])) ELSE resp[q]]
        /\ log' = [q \in Reqs |->
                      IF q \in same
                      THEN log[q] \o e.logs \o RespondLogs(e, Path(req[r]))
                      ELSE log[q]]
        /\ pc' = [q \in Reqs |-> IF q \in same THEN "done" ELSE pc[q]]
        /\ UNCHANGED <<req, calls>>

\* The upstream call of task r ends in o; the handler runs to its end and
\* the response is made.
UpstreamCompletes(r, o) ==
    LET e == HandlerEnd(req[r], o)
    IN  /\ pc[r] = "awaiting"
        /\ outcome' = [outcome EXCEPT ![r] = o]
        /\ exit' = [exit EXCEPT ![r] = e.exit]
        /\ resp' = [resp EXCEPT ![r] = Respond(e, Path(req[r]))]
        /\ log' = [log EXCEPT ![r] = @ \o e.logs \o RespondLogs(e, Path(req[r]))]
        /\ pc' = [pc EXCEPT ![r] = "done"]
        /\ UNCHANGED <<req, calls>>

\* The response is sent and the task ends: nothing of the request is kept.
Finish(r) ==
    /\ pc[r] = "done"
    /\ pc' = [pc EXCEPT ![r] = "idle"]
    /\ req' = [req EXCEPT ![r] = None]
    /\ calls' = [calls EXCEPT ![r] = <<>>]
    /\ outcome' = [outcome EXCEPT ![r] = None]
    /\ exit' = [exit EXCEPT ![r] = "none"]
    /\ resp' = [resp EXCEPT ![r] = None]
    /\ log' = [log EXCEPT ![r] = <<>>]

\* Requests arrive one after the other: one is taken when no task is busy.
Arrive == \E r \in Reqs : \E rq \in Requests :
              (\A q \in Reqs : pc[q] = "idle") /\ Receive(r, rq)
Complete == \E r \in Reqs : pc[r] = "awaiting" /\
                \E o \in Outcomes(req[r].op) : UpstreamCompletes(r, o)
Close == \E r \in Reqs : Finish(r)

Next == Arrive \/ Complete \/ Close

Spec == Init /\ [][Next]_vars

(* --------------------- vocabulary of the properties -------------------- *)

\* Task r has answered a request for which it called the upstream.
Answered(r) == pc[r] = "done" /\ calls[r] # <<>>

\* The kinds an upstream call ends in.
TimedOut(o) == o.kind = "timeout"
NetworkFailed(o) == o.kind = "network"
Status(o, s) == o.kind = "response" /\ o.status = s
OtherBadStatus(o) == o.kind = "response" /\ ~(o.status \in 200 .. 299) /\ o.status # 403
Decoded(o) == o.kind = "response" /\ o.status \in 200 .. 299 /\ o.valid
ErrorBody(o) ==
    Decoded(o) /\ o.value.t = "object" /\ "Error Message" \in DOMAIN o.value.fields
\* A successful call whose payload is null, [] or {}.
EmptyPayload(o) ==
    Decoded(o) /\ o.value \in {JNull, JArr(<<>>), JObj(<<>>)}
\* A successful call whose payload holds something and reports no error.
FilledPayload(o) == Decoded(o) /\ ~ErrorBody(o) /\ ~EmptyPayload(o)

IsError(response) == response.status >= 400
MentionsApiKey(detail) ==
    \E i \in DOMAIN detail : detail[i] = Lit("API access forbidden - check API key")

(* -------------------------------- C1 ----------------------------------- *)

\* C1 (as claimed): for every ticker-based operation, when the upstream call
\* answers with status 403 the response to the caller has status 403 and a
\* detail that mentions the API key.  The code answers 500: the
\* HTTPException(403) is raised inside the try block of make_fmp_request and
\* caught by its own "except Exception".
C1_Forbidden403 ==
    \A r \in Reqs :
        (Answered(r) /\ req[r].op \in TickerOps /\ Status(outcome[r], 403))
            => (resp[r].status = 403 /\ MentionsApiKey(resp[r].body.detail))

(* -------------------------------- C2 ----------------------------------- *)

UsesFallback(r) == resp[r].status = 200 /\ resp[r].body = JArr(fallback_stocks)
UpstreamFailed(o) ==
    TimedOut(o) \/ NetworkFailed(o) \/ Status(o, 403) \/ OtherBadStatus(o) \/ ErrorBody(o)

\* C2 (as claimed): popular-stocks returns the static fallback list if and
\* only if the upstream call yields an empty or absent result or fails; a
\* failing upstream call ends in a successful response carrying the
\* fallback list.  The code answers 500 to every failing upstream call.
C2_FallbackIffEmptyOrFailed ==
    \A r \in Reqs :
        (Answered(r) /\ req[r].op = "popular_stocks")
            => (UsesFallback(r) <=> (EmptyPayload(outcome[r]) \/ UpstreamFailed(outcome[r])))

(* -------------------------------- C4 ----------------------------------- *)

\* C4: for every ticker-based operation, when the upstream call times out
\* the response to the caller has status 504.
C4_Timeout504 ==
    \A r \in Reqs :
        (Answered(r) /\ req[r].op \in TickerOps /\ TimedOut(outcome[r]))
            => resp[r].status = 504

C4_Witness ==
    \E r \in Reqs :
        /\ Answered(r) /\ req[r].op = "stock_prices" /\ TimedOut(outcome[r])
        /\ resp[r].status = 504

(* -------------------------------- C5 ----------------------------------- *)

\* C5: for every ticker-based operation, when the upstream call succeeds
\* with an empty or missing payload (empty array, null, empty object) the
\* handler answers 404 and leaves by its not-found raise, building no record.
C5_EmptyIs404 ==
    \A r \in Reqs :
        (Answered(r) /\ req[r].op \in TickerOps /\ EmptyPayload(outcome[r]))
            => (resp[r].status = 404 /\ exit[r] = "not_found"
                /\ DOMAIN resp[r].body = {"detail"})

C5_Witness ==
    \E r \in Reqs :
        /\ Answered(r) /\ req[r].op = "analyst_estimates"
        /\ outcome[r] = GetResponse(200, JObj(<<>>))
        /\ resp[r].status = 404

(* -------------------------------- C6 ----------------------------------- *)

\* C6: for every ticker-based operation, a 2xx answer whose decoded body is
\* an object with an "Error Message" field is a failure: the response has
\* status 500, as it has for a non-2xx, non-403 status and for a network
\* error, and the body is never returned as the payload.
C6_ErrorBodyIs500 ==
    \A r \in Reqs :
        (Answered(r) /\ req[r].op \in TickerOps) =>
            /\ (ErrorBody(outcome[r]) \/ OtherBadStatus(outcome[r])
                    \/ NetworkFailed(outcome[r]))
                  => resp[r].status = 500
            /\ ErrorBody(outcome[r])
                  => (exit[r] = "reraise" /\ resp[r].body # outcome[r].value)

C6_Witness ==
    \E r \in Reqs :
        /\ Answered(r) /\ req[r].op = "financial_growth"
        /\ ErrorBody(outcome[r]) /\ resp[r].status = 500

(* ------------------- popular-stocks on lists of any length ------------- *)

\* The most-actives call ends in a list of 0..MaxActives stocks, or in any
\* of the outcomes of Spec.
PopularOutcomes ==
    Outcomes("popular_stocks")
        \cup {GetResponse(200, JArr(s)) : s \in SeqsOf(StockItems, 0, MaxActives)}

ArrivePopular ==
    (\A q \in Reqs : pc[q] = "idle") /\ Receive(1, Request("popular_stocks", <<>>, 0))
CompletePopular ==
    pc[1] = "awaiting" /\ \E o \in PopularOutcomes : UpstreamCompletes(1, o)

NextPopular == ArrivePopular \/ CompletePopular \/ Close

SpecPopular == Init /\ [][NextPopular]_vars

(* -------------------------------- C3 ----------------------------------- *)

\* C3 (as claimed): every successful popular-stocks response is a list of
\* exactly 6 entries, whatever the length of the upstream list.
C3_ExactlySix ==
    \A r \in Reqs :
        (Answered(r) /\ req[r].op = "popular_stocks" /\ resp[r].status = 200)
            => (resp[r].body.t = "array" /\ Len(resp[r].body.items) = 6)

\* C3 (amended): a successful popular-stocks response is a list with one
\* entry per upstream stock up to the sixth, so min(n, 6) entries for an
\* upstream list of n >= 1 stocks, and the 6 fallback entries when the
\* upstream payload is empty or null.
C3_AtMostSix ==
    \A r \in Reqs :
        (Answered(r) /\ req[r].op = "popular_stocks" /\ resp[r].status = 200)
            => /\ resp[r].body.t = "array"
               /\ IF FilledPayload(outcome[r])
                  THEN LET n == Len(outcome[r].value.items)
                       IN  Len(resp[r].body.items) = IF n < 6 THEN n ELSE 6
                  ELSE /\ EmptyPayload(outcome[r])
                       /\ Len(resp[r].body.items) = 6

C3_Witness ==
    \E r \in Reqs :
        /\ Answered(r) /\ req[r].op = "popular_stocks" /\ resp[r].status = 200
        /\ FilledPayload(outcome[r])
        /\ Len(outcome[r].value.items) = 4
        /\ Len(resp[r].body.items) = 4

(* ---------------- stock-prices on histories in any order --------------- *)

\* An upstream point: the date absent, null, "1", "10" or "2"; the price
\* absent, the int 2 or the float 1.5; the volume present with the price.
Optional(S) == {<<>>} \cup {<<x>> : x \in S}
HistoryDates == Optional({Null, JStr(<<49>>), JStr(<<49, 48>>), JStr(<<50>>)})
HistoryPrices == Optional({JInt(2), JFloat(150)})
HistoryItem(d, p) ==
    [key \in {k \in {"date"} : d # <<>>} \cup {k \in {"price", "volume"} : p # <<>>} |->
        CASE key = "date" -> d[1]
          [] key = "price" -> p[1]
          [] key = "volume" -> JFloat(1099)]
HistoryItems == {HistoryItem(d, p) : d \in HistoryDates, p \in HistoryPrices}

ArrivePrices ==
    \E t \in Tickers :
        (\A q \in Reqs : pc[q] = "idle") /\ Receive(1, Request("stock_prices", t, 30))
CompletePrices ==
    pc[1] = "awaiting" /\
        \E s \in SeqsOf(HistoryItems, 1, MaxPoints) :
            UpstreamCompletes(1, GetResponse(200, JArr(s)))

NextPrices == ArrivePrices \/ CompletePrices \/ Close

SpecPrices == Init /\ [][NextPrices]_vars

(* -------------------------------- C7 ----------------------------------- *)

\* Output point p is the point of upstream element item: its date (empty
\* when the element has none) and its single price (0 when it has none).
PointOf(p, item) ==
    /\ p.date = (IF "date" \in DOMAIN item THEN item["date"] ELSE JStr(<<>>))
    /\ NumEq(p.close, IF "price" \in DOMAIN item THEN item["price"] ELSE JInt(0))

\* The output points are the upstream elements, one for one.
OnePointPerElement(out, in) ==
    /\ Len(out) = Len(in)
    /\ \E pi \in Permutations(DOMAIN in) : \A i \in DOMAIN in : PointOf(out[pi[i]], in[i])

\* C7: every successful stock-prices response is a list sorted
\* non-decreasing by date string, with one point per upstream element, and
\* in every point open, high, low and close all equal the element's price.
C7_SortedCollapsed ==
    \A r \in Reqs :
        (Answered(r) /\ req[r].op = "stock_prices" /\ resp[r].status = 200) =>
            LET out == resp[r].body.items
                in == outcome[r].value.items
            IN  /\ OnePointPerElement(out, in)
                /\ \A i, j \in DOMAIN out :
                       i < j => ~StrLess(out[j].date.s, out[i].date.s)
                /\ \A i \in DOMAIN out :
                       /\ NumEq(out[i].open, out[i].close)
                       /\ NumEq(out[i].high, out[i].close)
                       /\ NumEq(out[i].low, out[i].close)

\* Three elements arriving newest first, the middle one without a date, two
\* sharing a date or not: the response has them oldest first.
C7_Witness ==
    \E r \in Reqs :
        /\ Answered(r) /\ req[r].op = "stock_prices" /\ resp[r].status = 200
        /\ LET in == outcome[r].value.items
               out == resp[r].body.items
           IN  /\ Len(in) = 3
               /\ "date" \in DOMAIN in[1] /\ in[1]["date"] = JStr(<<50>>)
               /\ "date" \notin DOMAIN in[2]
               /\ "date" \in DOMAIN in[3] /\ in[3]["date"] = JStr(<<49, 48>>)
               /\ out[1].date = JStr(<<>>) /\ out[2].date = JStr(<<49, 48>>)
               /\ out[3].date = JStr(<<50>>)

(* --------------- normalizers on elements with fields missing ----------- *)

Range(f) == {f[x] : x \in DOMAIN f}

\* The sets of at most MaxMissing keys of K.
FewOf(K) == {{}} \cup {Range(f) : f \in [1 .. MaxMissing -> K]}

\* A profile element without up to MaxMissing of its fields, or without any.
CompanyItems ==
    {Without(SampleCompany, gone) : gone \in FewOf(DOMAIN SampleCompany)} \cup {<<>>}

\* A price element and a stock without any subset of their fields.
SamplePoint == [date |-> JStr(<<50>>), price |-> JFloat(150), volume |-> JInt(10)]
PointItems == {Without(SamplePoint, gone) : gone \in SUBSET DOMAIN SamplePoint}
PartStockItems == {Without(SampleStock, gone) : gone \in SUBSET DOMAIN SampleStock}

DefaultsDocs(op) ==
    CASE op = "company_profile" -> {JArr(<<c>>) : c \in CompanyItems}
      [] op = "stock_prices" -> {JArr(s) : s \in SeqsOf(PointItems, 1, 2)}
      [] op = "popular_stocks" -> {JArr(<<c, SampleStock>>) : c \in PartStockItems}

NormalizerOps == {"company_profile", "stock_prices", "popular_stocks"}

ArriveDefaults ==
    \E rq \in {q \in Requests : q.op \in NormalizerOps /\ ~DateRangeOverflows(q.days)} :
        (\A q \in Reqs : pc[q] = "idle") /\ Receive(1, rq)
CompleteDefaults ==
    pc[1] = "awaiting" /\
        \E d \in DefaultsDocs(req[1].op) : UpstreamCompletes(1, GetResponse(200, d))

NextDefaults == ArriveDefaults \/ CompleteDefaults \/ Close

SpecDefaults == Init /\ [][NextDefaults]_vars

(* -------------------------------- C8 ----------------------------------- *)

\* Each output field of the three normalizers: the upstream key it is read
\* from and whether it is a number or a string.
CompanyFields ==
    {<<"symbol", "symbol", "str">>, <<"companyName", "companyName", "str">>,
     <<"price", "price", "num">>, <<"changes", "change", "num">>,
     <<"changesPercentage", "changePercentage", "num">>,
     <<"currency", "currency", "str">>, <<"exchangeShortName", "exchange", "str">>,
     <<"industry", "industry", "str">>, <<"sector", "sector", "str">>,
     <<"country", "country", "str">>, <<"marketCap", "marketCap", "num">>,
     <<"beta", "beta", "num">>, <<"volAvg", "averageVolume", "num">>,
     <<"mktCap", "marketCap", "num">>, <<"lastDiv", "lastDividend", "num">>,
     <<"range", "range", "str">>, <<"exchange", "exchangeFullName", "str">>,
     <<"description", "description", "str">>, <<"ceo", "ceo", "str">>,
     <<"website", "website", "str">>, <<"image", "image", "str">>,
     <<"employees", "fullTimeEmployees", "str">>, <<"phone", "phone", "str">>,
     <<"address", "address", "str">>, <<"city", "city", "str">>,
     <<"state", "state", "str">>, <<"zip", "zip", "str">>,
     <<"ipoDate", "ipoDate", "str">>}
PointFields ==
    {<<"date", "date", "str">>, <<"close", "price", "num">>, <<"volume", "volume", "num">>,
     <<"open", "price", "num">>, <<"high", "price", "num">>, <<"low", "price", "num">>}
StockFields ==
    {<<"symbol", "symbol", "str">>, <<"name", "name", "str">>, <<"price", "price", "num">>,
     <<"change", "change", "num">>, <<"changesPercentage", "changesPercentage", "num">>}

\* Value v is the number 0 (0 or 0.0), or the empty string.
IsZeroOrEmpty(v, kind) == IF kind = "num" THEN NumEq(v, JInt(0)) ELSE v = JStr(<<>>)

\* Every field of record out whose upstream key is missing from item holds
\* 0 or "" -- but for the fields in except, which hold what except gives.
MissingAreDefault(out, item, fields, except) ==
    \A f \in fields :
        f[2] \notin DOMAIN item =>
            IF f[1] \in DOMAIN except
            THEN IF f[3] = "num" THEN NumEq(out[f[1]], except[f[1]])
                                 ELSE out[f[1]] = except[f[1]]
            ELSE IsZeroOrEmpty(out[f[1]], f[3])

\* The company-profile defaults that are neither 0 nor "".
CompanyExceptions(ticker) ==
    [symbol |-> JStr(Upper(ticker)), currency |-> JStr(<<85, 83, 68>>),
     exchangeShortName |-> JStr(<<78, 65, 83, 68, 65, 81>>),
     country |-> JStr(<<85, 83>>), beta |-> JFloat(100)]

\* Every present field of every element holds a number or a string.
WellTyped(items) ==
    \A i \in DOMAIN items :
        \A key \in DOMAIN items[i] : items[i][key].k \in {"int", "float", "str"}

\* The upstream call of task r, for one of the normalizers, succeeded with
\* a non-empty list of well-typed elements.
NormalizerCase(r) ==
    /\ Answered(r) /\ req[r].op \in NormalizerOps
    /\ FilledPayload(outcome[r]) /\ outcome[r].value.t = "array"
    /\ WellTyped(outcome[r].value.items)

\* The normalizer of task r succeeded and gave the fields of missing keys
\* 0 or "", but for the company-profile fields in except.
DefaultsHold(r, except) ==
    LET in == outcome[r].value.items
    IN  /\ resp[r].status = 200
        /\ CASE req[r].op = "company_profile" ->
                    MissingAreDefault(resp[r].body.fields, in[1], CompanyFields, except)
             [] req[r].op = "stock_prices" ->
                    LET out == resp[r].body.items
                    IN  /\ Len(out) = Len(in)
                        /\ \E pi \in Permutations(DOMAIN in) : \A i \in DOMAIN in :
                               /\ PointOf(out[pi[i]], in[i])
                               /\ MissingAreDefault(out[pi[i]], in[i], PointFields, <<>>)
             [] req[r].op = "popular_stocks" ->
                    \A i \in DOMAIN resp[r].body.items :
                        MissingAreDefault(resp[r].body.items[i], in[i], StockFields, <<>>)

\* C8 (as claimed): for every non-empty successful payload with any subset
\* of fields missing from an element, the normalizers (company-profile,
\* stock-prices, popular-stocks) succeed and set every missing numeric field
\* to 0 and every missing string field to the empty string.
C8_ZeroOrEmpty ==
    \A r \in Reqs : NormalizerCase(r) => DefaultsHold(r, <<>>)

\* C8 (amended): ... except that company-profile sets a missing symbol to
\* the uppercased ticker, currency to "USD", exchangeShortName (upstream
\* "exchange") to "NASDAQ", country to "US" and beta to 1.0.
C8_DocumentedDefaults ==
    \A r \in Reqs :
        NormalizerCase(r) =>
            DefaultsHold(r, IF req[r].op = "company_profile"
                            THEN CompanyExceptions(req[r].ticker) ELSE <<>>)

C8_Witness ==
    \E r \in Reqs :
        /\ NormalizerCase(r) /\ req[r].op = "company_profile" /\ resp[r].status = 200
        /\ DOMAIN SampleCompany \ DOMAIN outcome[r].value.items[1] = {"price", "currency"}
        /\ resp[r].body.fields.price = JFloat(0)
        /\ resp[r].body.fields.currency = JStr(<<85, 83, 68>>)

(* -------------------------------- C9 ----------------------------------- *)

\* C9 (as claimed): every error response, for any endpoint and any failure
\* kind, has a body of the shape {detail, timestamp, path}.
C9_ErrorShape ==
    \A r \in Reqs :
        (pc[r] = "done" /\ IsError(resp[r]))
            => DOMAIN resp[r].body = {"detail", "timestamp", "path"}

\* C9 (amended): every error response carries a detail; it carries a
\* timestamp and the path as well only when global_exception_handler made
\* it (an exception escaping the handler: the returned payload could not be
\* rendered).  A response made from an HTTPException -- 404 not found, an
\* upstream failure answered 500 or 504, an exception caught inside a
\* handler answered 500 -- has the body {detail} alone.
C9_DetailAlways ==
    \A r \in Reqs :
        (pc[r] = "done" /\ IsError(resp[r])) =>
            IF exit[r] \in {"not_found", "reraise", "unexpected"}
            THEN DOMAIN resp[r].body = {"detail"}
            ELSE /\ exit[r] \in {"return", "fallback"}
                 /\ resp[r].status = 500
                 /\ DOMAIN resp[r].body = {"detail", "timestamp", "path"}
                 /\ resp[r].body.path = Path(req[r])

\* Both kinds of error response occur.
C9_Witness ==
    \E r \in Reqs :
        /\ pc[r] = "done" /\ IsError(resp[r])
        /\ exit[r] = "return" /\ req[r].op = "key_metrics"
        /\ DOMAIN resp[r].body = {"detail", "timestamp", "path"}

(* -------------------------------- C10 ---------------------------------- *)

\* The probe call of the health check failed: make_fmp_request raised.
ProbeFailed(o) == ~Decoded(o) \/ ErrorBody(o)

\* C10: the health check never fails: whatever its probe call (a profile
\* lookup for "AAPL") ends in, the response is successful, fmp_status is
\* "healthy" exactly when the probe succeeded with a non-empty payload and
\* "unhealthy" otherwise, and fmp_error is present exactly when the probe
\* call failed.
C10_HealthNeverFails ==
    \A r \in Reqs :
        (pc[r] = "done" /\ req[r].op = "health") =>
            /\ calls[r] = <<[endpoint |-> "profile",
                             params |-> [symbol |-> <<65, 65, 80, 76>>, others |-> {}],
                             apikey |-> TRUE]>>
            /\ resp[r].status = 200
            /\ resp[r].body.fields.fmp_status =
                   (IF FilledPayload(outcome[r]) THEN Text("healthy") ELSE Text("unhealthy"))
            /\ ("fmp_error" \in DOMAIN resp[r].body.fields) <=> ProbeFailed(outcome[r])

C10_Witness ==
    \E r \in Reqs :
        /\ pc[r] = "done" /\ req[r].op = "health" /\ Status(outcome[r], 403)
        /\ resp[r].status = 200
        /\ resp[r].body.fields.fmp_status = Text("unhealthy")
        /\ "fmp_error" \in DOMAIN resp[r].body.fields

(* -------------------------------- C11 ---------------------------------- *)

\* Text u is text s with every lower-case letter replaced by its capital.
IsUpperOf(u, s) ==
    /\ Len(u) = Len(s)
    /\ \A i \in DOMAIN s :
           \/ s[i] \in 97 .. 122 /\ u[i] = s[i] - 32
           \/ s[i] \notin 97 .. 122 /\ u[i] = s[i]

\* The tickers and symbols a message is formatted with.
SymsOf(msg) == {msg[i].sym : i \in {j \in DOMAIN msg : "sym" \in DOMAIN msg[j]}}

\* C11: for every ticker-based operation and a ticker in any letter case,
\* the symbol parameter of the upstream request the handler issues is the
\* upper-case form of the ticker, and the upper-case form, not the ticker as
\* typed, is what the not-found detail names.
C11_UpperSymbol ==
    \A r \in Reqs :
        (pc[r] # "idle" /\ req[r].op \in TickerOps) =>
            /\ \A i \in DOMAIN calls[r] :
                   IsUpperOf(calls[r][i].params.symbol, req[r].ticker)
            /\ (pc[r] = "done" /\ exit[r] = "not_found") =>
                   /\ SymsOf(resp[r].body.detail) # {}
                   /\ \A u \in SymsOf(resp[r].body.detail) : IsUpperOf(u, req[r].ticker)

\* "Ab" was asked for, "AB" was looked up and "AB" is reported not found.
C11_Witness ==
    \E r \in Reqs :
        /\ pc[r] = "done" /\ req[r].op = "analyst_estimates"
        /\ req[r].ticker = <<65, 98>>
        /\ calls[r][1].params.symbol = <<65, 66>>
        /\ exit[r] = "not_found"
        /\ resp[r].body.detail =
               <<Lit("Analyst estimates for "), Sym(<<65, 66>>), Lit(" not found")>>

(* ------------- company-profile on elements with any symbol ------------- *)

\* An upstream profile element: the symbol absent, null, "AB", "ab" or "B";
\* the company name absent or present; the price absent, null, an int or a
\* float.
ProfileSymbols == Optional({Null, JStr(AB), JStr(<<97, 98>>), JStr(<<66>>)})
ProfileNames == Optional({JStr(<<65>>)})
ProfilePrices == Optional({Null, JInt(2), JFloat(23280)})
ProfileElement(sy, n, p) ==
    [key \in {k \in {"symbol"} : sy # <<>>} \cup {k \in {"companyName"} : n # <<>>}
                 \cup {k \in {"price"} : p # <<>>} |->
        CASE key = "symbol" -> sy[1]
          [] key = "companyName" -> n[1]
          [] key = "price" -> p[1]]
ProfileElements ==
    {ProfileElement(sy, n, p) : sy \in ProfileSymbols, n \in ProfileNames, p \in ProfilePrices}

\* The ticker typed in lower, mixed and upper case.
ProfileTickers == Tickers \cup {AB}

ArriveProfile ==
    \E t \in ProfileTickers :
        (\A q \in Reqs : pc[q] = "idle") /\ Receive(1, Request("company_profile", t, 0))
CompleteProfile ==
    pc[1] = "awaiting" /\
        \E c \in ProfileElements : UpstreamCompletes(1, GetResponse(200, JArr(<<c>>)))

NextProfile == ArriveProfile \/ CompleteProfile \/ Close

SpecProfile == Init /\ [][NextProfile]_vars

(* -------------------------------- C12 ---------------------------------- *)

\* Task r answered a company-profile request successfully from a non-empty
\* payload.
ProfileReturned(r) ==
    /\ Answered(r) /\ req[r].op = "company_profile"
    /\ FilledPayload(outcome[r]) /\ resp[r].status = 200

\* C12 (as claimed): for a ticker in any letter case and every non-empty
\* successful upstream profile payload, the symbol of the company-profile
\* output is the upper-case form of the ticker.
C12_SymbolIsUpperTicker ==
    \A r \in Reqs :
        ProfileReturned(r) =>
            /\ resp[r].body.fields.symbol.k = "str"
            /\ IsUpperOf(resp[r].body.fields.symbol.s, req[r].ticker)

\* C12 (amended): the symbol of the output is the symbol of the first
\* upstream element whenever that element has one, whatever it holds, and
\* the upper-case form of the ticker when the element has none.
C12_SymbolOfElement ==
    \A r \in Reqs :
        ProfileReturned(r) =>
            LET company == outcome[r].value.items[1]
                symbol == resp[r].body.fields.symbol
            IN  IF "symbol" \in DOMAIN company
                THEN symbol = company["symbol"]
                ELSE symbol.k = "str" /\ IsUpperOf(symbol.s, req[r].ticker)

\* "ab" was asked for and the upstream element names "B": so does the output;
\* "Ab" was asked for and the element names nothing: the output names "AB".
C12_Witness ==
    \E r \in Reqs :
        /\ ProfileReturned(r)
        /\ LET company == outcome[r].value.items[1]
           IN  \/ /\ req[r].ticker = <<97, 98>>
                  /\ "symbol" \in DOMAIN company /\ company["symbol"] = JStr(<<66>>)
                  /\ resp[r].body.fields.symbol = JStr(<<66>>)
               \/ /\ req[r].ticker = <<65, 98>>
                  /\ "symbol" \notin DOMAIN company
                  /\ resp[r].body.fields.symbol = JStr(<<65, 66>>)

(* -------------------------------- C13 ---------------------------------- *)

\* The positions in the log of task r of the failure events (warning or
\* error level) of the upstream client and of the application.
FailureEvents(r) ==
    {i \in DOMAIN log[r] :
        /\ log[r][i].logger \in {"fmp_api", "stock_analytics"}
        /\ log[r][i].level \in {"warning", "error"}}

\* C13 (as claimed): for every request that ends in a failure, exactly one
\* failure log event (warning or error level) is emitted on the way through
\* the upstream client and the endpoint handler; no failure kind is logged
\* zero times or more than once.  The code logs a 403 and an application
\* error body twice in make_fmp_request alone: once where it raises the
\* HTTPException, once more in its own "except Exception".
C13_FailureLoggedOnce ==
    \A r \in Reqs :
        (pc[r] = "done" /\ IsError(resp[r])) => Cardinality(FailureEvents(r)) = 1

(* -------------------------------- C14 ---------------------------------- *)

\* The positions in the log of task r of the events make_fmp_request emits
\* once its call has ended: every event of its logger but the first, which
\* announces the request.
OutcomeEvents(r) ==
    {i \in DOMAIN log[r] :
        log[r][i].logger = "fmp_api" /\ log[r][i].msg # "FMP API REQUEST"}
ResponseEvents(r) == {i \in OutcomeEvents(r) : log[r][i].msg = "FMP API RESPONSE"}
ErrorEvents(r) == {i \in OutcomeEvents(r) : log[r][i].level = "error"}

\* Event ev carries the endpoint, the elapsed time, and the status code or
\* (being an error event, named after it) the failure kind.
CarriesOutcome(ev) ==
    /\ {"endpoint", "time"} \subseteq DOMAIN ev.carries
    /\ "status" \in DOMAIN ev.carries \/ ev.level = "error"

\* C14 (as claimed): every call of the upstream client, whatever its outcome
\* (success, 403, other non-2xx status, application error body, timeout,
\* network error), emits exactly one outcome event, and that event carries
\* the endpoint path, the elapsed time, and either the status code or the
\* failure kind.
C14_OneOutcomeEvent ==
    \A r \in Reqs :
        Answered(r) =>
            /\ Cardinality(OutcomeEvents(r)) = 1
            /\ \A i \in OutcomeEvents(r) : CarriesOutcome(log[r][i])

\* C14 (amended): a call that the upstream answers, with whatever status,
\* emits exactly one response event, which carries the endpoint, the status
\* code and the elapsed time; a call that ends in a timeout or a network
\* error emits none.  A failed call emits error events besides: one for a
\* timeout, a network error, an undecodable body and a non-2xx status other
\* than 403, two for a 403 and for an application error body; a successful
\* call emits none.  No error event carries the elapsed time, and those of a
\* timeout and of a network error carry the endpoint.
C14_ResponseEventWhenAnswered ==
    \A r \in Reqs :
        Answered(r) =>
            LET o == outcome[r]
            IN  /\ OutcomeEvents(r) = ResponseEvents(r) \cup ErrorEvents(r)
                /\ IF o.kind = "response"
                   THEN /\ Cardinality(ResponseEvents(r)) = 1
                        /\ \A i \in ResponseEvents(r) :
                               /\ DOMAIN log[r][i].carries = {"endpoint", "status", "time"}
                               /\ log[r][i].carries.endpoint = calls[r][1].endpoint
                               /\ log[r][i].carries.status = o.status
                   ELSE ResponseEvents(r) = {}
                /\ Cardinality(ErrorEvents(r)) =
                       (IF Status(o, 403) \/ ErrorBody(o) THEN 2
                        ELSE IF FilledPayload(o) \/ EmptyPayload(o) THEN 0 ELSE 1)
                /\ \A i \in ErrorEvents(r) : "time" \notin DOMAIN log[r][i].carries
                /\ (TimedOut(o) \/ NetworkFailed(o)) =>
                       \A i \in ErrorEvents(r) :
                           /\ "endpoint" \in DOMAIN log[r][i].carries
                           /\ log[r][i].carries.endpoint = calls[r][1].endpoint

\* A call timed out: its one event names the endpoint and no elapsed time.
C14_Witness ==
    \E r \in Reqs :
        /\ Answered(r) /\ TimedOut(outcome[r])
        /\ Cardinality(OutcomeEvents(r)) = 1
        /\ \A i \in OutcomeEvents(r) :
               /\ log[r][i].msg = "FMP API TIMEOUT"
               /\ DOMAIN log[r][i].carries = {"endpoint"}

(* ------------------- requests handled at the same time ----------------- *)

\* A request is taken by any idle task while others await their upstream
\* call: the await is where the tasks of the event loop interleave.
ArriveAny == \E r \in Reqs : \E rq \in Requests : Receive(r, rq)

NextConcurrent == ArriveAny \/ Complete \/ Close

SpecConcurrent == Init /\ [][NextConcurrent]_vars

(* -------------------------------- C15 ---------------------------------- *)

\* Everything task r holds of its request.
Own(r) == <<pc[r], req[r], calls[r], outcome[r], exit[r], resp[r], log[r]>>

\* The request of task r asks for data: any route but the root.
DataRequest(r) == pc[r] # "idle" /\ req[r].op # "root"

\* The upstream call of task r is the one its own request asks for.
OwnCall(c, rq) ==
    /\ c.endpoint = Endpoint(rq)
    /\ CASE rq.op = "health" -> c.params.symbol = <<65, 65, 80, 76>>
         [] rq.op = "popular_stocks" -> c.params.symbol = <<>>
         [] OTHER -> IsUpperOf(c.params.symbol, rq.ticker)

\* The response of task r is the one its own request and the outcome of its
\* own upstream call give.
OwnResponse(r) ==
    LET e == HandlerEnd(req[r], outcome[r])
    IN  /\ exit[r] = e.exit
        /\ resp[r] = Respond(e, Path(req[r]))

\* A step is the step of one task: it leaves what the others hold alone.
OneTaskSteps ==
    \A r, q \in Reqs : (r # q /\ Own(r)' # Own(r)) => Own(q)' = Own(q)

NoCallMade(r) == req[r].op = "stock_prices" /\ DateRangeOverflows(req[r].days)

Terminal(r) ==
    CASE exit[r] = "return" -> "NormalizeAndReturn"
      [] exit[r] = "fallback" -> "ApplyFallback"
      [] exit[r] \in {"not_found", "reraise", "unexpected"} -> "ReportError"
      [] OTHER -> "None"

\* The handlers that fetch data and reshape it: all but root and health.
DataOps == TickerOps \cup {"popular_stocks"}

\* C16 (as claimed): every handled request goes from Start through
\* UpstreamCallIssued to exactly one of NormalizeAndReturn, ApplyFallback
\* and ReportError; NormalizeAndReturn is reached only when the upstream
\* outcome is a success with a non-empty payload, and ApplyFallback only in
\* the popular-stocks operation.
C16_StateMachine ==
    \A r \in Reqs :
        pc[r] = "done" =>
            /\ Len(calls[r]) = 1
            /\ Terminal(r) \in {"NormalizeAndReturn", "ApplyFallback", "ReportError"}
            /\ Terminal(r) = "NormalizeAndReturn" => FilledPayload(outcome[r])
            /\ Terminal(r) = "ApplyFallback" => req[r].op = "popular_stocks"

\* The steps of the state machine of task r: Start to UpstreamCallIssued, to
\* the end from there, and Start to the end at once for a handler that ends
\* before any upstream call.
HandlerSteps(r) ==
    \/ pc'[r] = pc[r]
    \/ pc[r] = "idle" /\ pc'[r] = "awaiting" /\ Len(calls'[r]) = 1
    \/ pc[r] = "awaiting" /\ pc'[r] = "done" /\ calls'[r] = calls[r]
    \/ pc[r] = "idle" /\ pc'[r] = "done" /\ calls'[r] = <<>>
         /\ (req'[r].op = "root" \/ NoCallMade(r)')
    \/ pc[r] = "done" /\ pc'[r] = "idle"

\* C16 (amended): every request to a data handler (the ticker operations
\* and popular-stocks) goes from Start through UpstreamCallIssued to exactly
\* one of NormalizeAndReturn, ApplyFallback and ReportError -- but for a
\* stock-prices request whose date range cannot be computed, which goes from
\* Start to ReportError with no upstream call; NormalizeAndReturn is reached
\* only when the upstream outcome is a success with a non-empty payload that
\* reports no error, ApplyFallback only in popular-stocks and only on a
\* success with an empty payload.  The root handler returns with no
\* upstream call, and the health handler returns its report after its call
\* whatever the outcome.
C16_DataHandlerStateMachine ==
    /\ [](\A r \in Reqs :
              pc[r] = "done" =>
                  CASE req[r].op = "root" ->
                          calls[r] = <<>> /\ exit[r] = "return"
                    [] req[r].op = "health" ->
                          Len(calls[r]) = 1 /\ exit[r] = "return"
                    [] OTHER ->
                          /\ IF NoCallMade(r)
                             THEN calls[r] = <<>> /\ Terminal(r) = "ReportError"
                             ELSE Len(calls[r]) = 1
                          /\ Terminal(r) \in {"NormalizeAndReturn", "ApplyFallback",
                                              "ReportError"}
                          /\ Terminal(r) = "NormalizeAndReturn" => FilledPayload(outcome[r])
                          /\ Terminal(r) = "ApplyFallback" =>
                                 req[r].op = "popular_stocks" /\ EmptyPayload(outcome[r]))
    /\ [][\A r \in Reqs : HandlerSteps(r)]_vars

\* A key-metrics request ended in NormalizeAndReturn after one upstream call
\* that succeeded with a non-empty list.
C16_Witness ==
    \E r \in Reqs :
        /\ pc[r] = "done" /\ req[r].op = "key_metrics"
        /\ Len(calls[r]) = 1
        /\ Terminal(r) = "NormalizeAndReturn"
        /\ FilledPayload(outcome[r]) /\ outcome[r].value.t = "array"
        /\ resp[r] = [status |-> 200, body |-> JObj(outcome[r].value.items[1])]

=============================================================================
